---- MODULE Spec2Model ----
(***************************************************************************)
(* typescript-memoize: the Memoize() decorator, the per-instance LRU       *)
(* caches it creates, the tag registry and clear().                        *)
(*                                                                         *)
(* Source: src/src/memoize-decorator.ts.  The bounded store is the         *)
(* lru-cache package (imported on line 1); its has/get/set/clear and its   *)
(* TTL bookkeeping are modelled where the decorator calls them.            *)
(***************************************************************************)
EXTENDS Integers, Sequences, FiniteSets, TLC

VARIABLES
    descriptor,         \* member name -> property descriptor of the class
    propCache,          \* <<instance, member>> -> this[propCacheName]
    clearCacheTagsMap,  \* tag -> array of the caches pushed under it
    now,                \* performance.now(), in milliseconds
    spy,                \* <<instance, member>> -> invocations of the original
    last                \* what the last operation did and returned

vars == <<descriptor, propCache, clearCacheTagsMap, now, spy, last>>

(***************************************************************************)
(* Bounds of the model.                                                    *)
(***************************************************************************)
MaxPush == 3    \* pushes of one cache under one tag
MaxCalls == 4   \* invocations of one original method on one instance
MaxTime == 5    \* last clock value

(***************************************************************************)
(* JavaScript values.  Objects and arrays live in a heap and are referred  *)
(* to by identity.                                                         *)
(***************************************************************************)
Undefined == [t |-> "undefined"]
Null == [t |-> "null"]
Str(s) == [t |-> "string", v |-> s]
Num(n) == [t |-> "number", v |-> n]
Bool(b) == [t |-> "boolean", v |-> b]
Ref(r) == [t |-> "object", ref |-> r]
Sym(d) == [t |-> "symbol", v |-> d]

Arr(items) == [kind |-> "array", items |-> items]
\* keys: the property names in insertion order; vals: name -> value
Obj(keys, vals) == [kind |-> "object", keys |-> keys, vals |-> vals]

EmptyHeap == <<>>

UNDEFINED_SENTINEL == Sym("UNDEFINED_SENTINEL")

(***************************************************************************)
(* Property names are compared as strings by Array.prototype.sort(); the   *)
(* names the model uses, in that order.                                    *)
(***************************************************************************)
PropNames == <<"a", "b", "c", "self">>

\* Mutant: the properties are taken in the order they were inserted.
SortedKeys_AsInserted(keys) == keys

\* Object.keys(value).sort()
SortedKeys(keys) ==
    LET present == {keys[n] : n \in 1..Len(keys)}
        RECURSIVE Build(_, _)
        Build(n, acc) ==
            IF n > Len(PropNames) THEN acc
            ELSE Build(n + 1, IF PropNames[n] \in present
                              THEN Append(acc, PropNames[n]) ELSE acc)
    IN Build(1, <<>>)

Quote(s) == "\"" \o s \o "\""

\* Mutant: a reference met again is written as null.
CircularMarker_Null == "null"

CircularMarker == "[Circular]"

(***************************************************************************)
(* JSON.stringify(args, replacer).  seen is the WeakSet of the replacer:   *)
(* it is filled in traversal order and never emptied during one call.      *)
(* Each operator yields [s |-> text, seen |-> the WeakSet afterwards].     *)
(***************************************************************************)
RECURSIVE SerializeValue(_, _, _)
RECURSIVE SerializeItems(_, _, _, _, _)
RECURSIVE SerializeProps(_, _, _, _, _, _, _)

\* One array element, after all before it: undefined becomes null.
SerializeItems(heap, items, n, seen, acc) ==
    IF n > Len(items) THEN [s |-> "[" \o acc \o "]", seen |-> seen]
    ELSE LET r == SerializeValue(heap, items[n], seen)
         IN SerializeItems(heap, items, n + 1, r.seen,
                           acc \o (IF n > 1 THEN "," ELSE "") \o r.s)

\* One property of the key-sorted copy: an undefined value is left out.
SerializeProps(heap, keys, vals, n, seen, acc, first) ==
    IF n > Len(keys) THEN [s |-> "{" \o acc \o "}", seen |-> seen]
    ELSE IF vals[keys[n]].t \in {"undefined", "symbol"}
         THEN SerializeProps(heap, keys, vals, n + 1, seen, acc, first)
         ELSE LET r == SerializeValue(heap, vals[keys[n]], seen)
              IN SerializeProps(heap, keys, vals, n + 1, r.seen,
                     acc \o (IF first THEN "" ELSE ",")
                         \o Quote(keys[n]) \o ":" \o r.s, FALSE)

\* replacer(key, value) followed by the serialization of what it returns.
SerializeValue(heap, value, seen) ==
    CASE value.t = "object" ->
            IF value.ref \in seen
            THEN [s |-> Quote(CircularMarker), seen |-> seen]
            ELSE LET o == heap[value.ref]
                     seen2 == seen \cup {value.ref}
                 IN IF o.kind = "array"
                    THEN SerializeItems(heap, o.items, 1, seen2, "")
                    ELSE SerializeProps(heap, SortedKeys(o.keys), o.vals,
                                        1, seen2, "", TRUE)
      [] value.t = "string" -> [s |-> Quote(value.v), seen |-> seen]
      [] value.t = "number" -> [s |-> ToString(value.v), seen |-> seen]
      [] value.t = "boolean" ->
            [s |-> IF value.v THEN "true" ELSE "false", seen |-> seen]
      [] value.t = "null" -> [s |-> "null", seen |-> seen]
      [] value.t = "undefined" -> [s |-> "null", seen |-> seen]
      [] value.t = "symbol" -> [s |-> "null", seen |-> seen]

\* The args array itself is the first value the replacer sees; it is a fresh
\* array that nothing refers to.
hashArgs(heap, args) == SerializeItems(heap, args, 1, {}, "").s

(***************************************************************************)
(* The custom hash function of the tests: (a, b) => `${a};${b}`.  A        *)
(* template literal turns each value into a string and throws a TypeError  *)
(* for a symbol.                                                           *)
(***************************************************************************)
NoHash == "none"
PairHash == "a;b"

SymbolError == Str("TypeError: Cannot convert a Symbol value to a string")

ToText(value) ==
    CASE value.t = "string" -> value.v
      [] value.t = "number" -> ToString(value.v)
      [] value.t = "boolean" -> (IF value.v THEN "true" ELSE "false")
      [] value.t = "null" -> "null"
      [] value.t = "undefined" -> "undefined"
      [] value.t = "object" -> "[object Object]"

ArgAt(args, n) == IF n <= Len(args) THEN args[n] ELSE Undefined

\* Mutant: the custom function is passed over for the default hashing.
ApplyHashFunction_Default(name, args) ==
    [kind |-> "return", value |-> hashArgs(EmptyHeap, args)]

\* Mutant: an exception of the custom function is caught and a fixed key
\* used in its place.
ApplyHashFunction_Swallowing(name, args) ==
    [kind |-> "return",
     value |-> IF ArgAt(args, 1).t = "symbol" \/ ArgAt(args, 2).t = "symbol"
               THEN "error"
               ELSE ToText(ArgAt(args, 1)) \o ";" \o ToText(ArgAt(args, 2))]

\* hashFunction.apply(this, args): what it returns, or what it throws.
ApplyHashFunction(name, args) ==
    IF ArgAt(args, 1).t = "symbol" \/ ArgAt(args, 2).t = "symbol"
    THEN [kind |-> "throw", value |-> SymbolError]
    ELSE [kind |-> "return",
          value |-> ToText(ArgAt(args, 1)) \o ";" \o ToText(ArgAt(args, 2))]

(***************************************************************************)
(* The LRUCache of one (instance, member) pair.  entries is the recency    *)
(* list: the head is the least recently used entry, the tail the most      *)
(* recently used.  cachedNow is the store's cached clock reading (0: none),*)
(* dropped again by a timer after ttlResolution = 1 ms.                    *)
(***************************************************************************)
NoCache == [kind |-> "absent"]

\* The TypeError the LRUCache constructor throws for these options ("" if it
\* throws none): max must be a non-negative integer, and a max of 0 needs a
\* ttl in its place.
LRUCacheError(options) ==
    IF options.max < 0 THEN "max option must be a nonnegative integer"
    ELSE IF options.max = 0 /\ "ttl" \notin DOMAIN options
    THEN "At least one of max, maxSize, or ttl is required"
    ELSE ""

\* Mutant: the cache is built with the default capacity, whatever max says.
NewLRUCache_DefaultMax(options) ==
    [kind |-> "LRUCache", max |-> 1000, ttl |-> 0, ttlAutopurge |-> FALSE,
     entries |-> <<>>, cachedNow |-> 0]

\* new LRUCache(options)
NewLRUCache(options) ==
    [kind |-> "LRUCache",
     max |-> options.max,
     ttl |-> IF "ttl" \in DOMAIN options THEN options.ttl ELSE 0,
     ttlAutopurge |-> IF "ttlAutopurge" \in DOMAIN options
                      THEN options.ttlAutopurge ELSE FALSE,
     entries |-> <<>>,
     cachedNow |-> 0]

IndexOf(entries, k) ==
    IF \E n \in 1..Len(entries) : entries[n].key = k
    THEN CHOOSE n \in 1..Len(entries) : entries[n].key = k
    ELSE 0

Without(entries, n) ==
    SubSeq(entries, 1, n - 1) \o SubSeq(entries, n + 1, Len(entries))

\* Whether a staleness check of this entry reads the clock at all.
ReadsClock(c, e) == c.ttl # 0 /\ e.start # 0

\* cachedNow || getNow(), with t the value of performance.now()
ClockValue(c, t) == IF c.cachedNow # 0 THEN c.cachedNow ELSE t

\* getNow() caches the reading it returns.
AfterClockRead(c, t) ==
    IF c.cachedNow # 0 THEN c ELSE [c EXCEPT !.cachedNow = t]

\* Mutant: an entry is stale as soon as its age reaches the ttl.
isStale_AtTtl(c, e, t) == ReadsClock(c, e) /\ ClockValue(c, t) - e.start >= c.ttl

isStale(c, e, t) == ReadsClock(c, e) /\ ClockValue(c, t) - e.start > c.ttl

\* Mutant: the lookup never finds an entry.
LruHas_NeverFound(c, k, t) == FALSE

\* cache.has(k): true only for an entry that is present and not stale;
\* recency is not touched and a stale entry is not deleted.
LruHas(c, k, t) ==
    LET n == IndexOf(c.entries, k)
    IN n # 0 /\ ~isStale(c, c.entries[n], t)

\* Mutant: the lookup leaves no reading of the clock behind.
AfterLruHas_NoReading(c, k, t) == c

\* What cache.has(k) leaves behind: the reading of the clock, if it took one.
AfterLruHas(c, k, t) ==
    LET n == IndexOf(c.entries, k)
    IN IF n # 0 /\ ReadsClock(c, c.entries[n]) THEN AfterClockRead(c, t) ELSE c

\* cache.get(k): a stale entry is deleted and undefined returned; a live
\* entry moves to the tail of the recency list.
LruGet(c, k, t) ==
    LET n == IndexOf(c.entries, k)
    IN IF n = 0 \/ isStale(c, c.entries[n], t) THEN Undefined
       ELSE c.entries[n].value

\* Mutant: a read leaves the recency list as it is.
AfterLruGet_NoRefresh(c, k, t) == c

AfterLruGet(c, k, t) ==
    LET n == IndexOf(c.entries, k)
    IN IF n = 0 THEN c
       ELSE LET e == c.entries[n]
                c2 == IF ReadsClock(c, e) THEN AfterClockRead(c, t) ELSE c
            IN IF isStale(c, e, t)
               THEN [c2 EXCEPT !.entries = Without(c.entries, n)]
               ELSE [c2 EXCEPT !.entries = Append(Without(c.entries, n), e)]

\* Mutant: a full list grows instead of losing its head.
AfterLruSet_NoEviction(c, k, v, t) ==
    [c EXCEPT !.entries = Append(c.entries,
        [key |-> k, value |-> v, start |-> IF c.ttl # 0 THEN t ELSE 0])]

\* cache.set(k, v): an existing key is overwritten and restarted, a new key
\* is appended after the head was evicted from a full list.  The first entry
\* of an empty list evicts nothing, so a cache with max 0 (which has a ttl)
\* is never full.
AfterLruSet(c, k, v, t) ==
    LET n == IndexOf(c.entries, k)
        e == [key |-> k, value |-> v, start |-> IF c.ttl # 0 THEN t ELSE 0]
    IN IF v = Undefined
       THEN (IF n = 0 THEN c ELSE [c EXCEPT !.entries = Without(c.entries, n)])
       ELSE IF n # 0
            THEN [c EXCEPT !.entries = Append(Without(c.entries, n), e)]
            ELSE IF Len(c.entries) # 0 /\ Len(c.entries) = c.max
                 THEN [c EXCEPT !.entries = Append(Tail(c.entries), e)]
                 ELSE [c EXCEPT !.entries = Append(c.entries, e)]

\* cache.clear()
AfterLruClear(c) == [c EXCEPT !.entries = <<>>]

(***************************************************************************)
(* The class under decoration.  A descriptor has a value (a method), a get *)
(* (an accessor) or neither (a data field); args is the argument of the    *)
(* Memoize(args) written on the member, applied says whether the decorator *)
(* has run.                                                                *)
(***************************************************************************)
OriginalMethod == [t |-> "function", memoized |-> FALSE]

Method(args) ==
    [value |-> OriginalMethod, get |-> Undefined, args |-> args, applied |-> FALSE]
Accessor(args) ==
    [value |-> Undefined, get |-> OriginalMethod, args |-> args, applied |-> FALSE]
Field(args) ==
    [value |-> Undefined, get |-> Undefined, args |-> args, applied |-> FALSE]

\* Mutant: the decorator does not look at what it decorates.
NotNullish_Unchecked(x) == TRUE

\* x != null
NotNullish(x) == x # Null /\ x # Undefined

UsageError == "Only put a Memoize() decorator on a method or get accessor."

\* const { hashFunction, tags, maxSize = 1000, ttl = 0 } = args || {}
\* and the closure getNewFunction returns over them.  A missing tags is not
\* an array and registers nothing, like the empty array.
getNewFunction(args) ==
    [t |-> "function",
     memoized |-> TRUE,
     hashFunction |-> IF "hashFunction" \in DOMAIN args
                      THEN args.hashFunction ELSE NoHash,
     tags |-> IF "tags" \in DOMAIN args THEN args.tags ELSE <<>>,
     maxSize |-> IF "maxSize" \in DOMAIN args THEN args.maxSize ELSE 1000,
     ttl |-> IF "ttl" \in DOMAIN args THEN args.ttl ELSE 0]

\* The decorator Memoize(args) returns, applied to the descriptor of m.
Memoize(m) ==
    LET d == descriptor[m]
    IN /\ ~d.applied
       /\ IF NotNullish(d.value)
          THEN /\ descriptor' = [descriptor EXCEPT
                       ![m].value = getNewFunction(d.args), ![m].applied = TRUE]
               /\ last' = [op |-> "Memoize", mem |-> m, outcome |-> "return"]
          ELSE IF NotNullish(d.get)
          THEN /\ descriptor' = [descriptor EXCEPT
                       ![m].get = getNewFunction(d.args), ![m].applied = TRUE]
               /\ last' = [op |-> "Memoize", mem |-> m, outcome |-> "return"]
          ELSE /\ descriptor' = [descriptor EXCEPT ![m].applied = TRUE]
               /\ last' = [op |-> "Memoize", mem |-> m, outcome |-> "throw",
                            error |-> UsageError]
       /\ UNCHANGED <<propCache, clearCacheTagsMap, now, spy>>

\* The function calling instance.member reaches, if there is one.
MemberFunction(m) ==
    IF NotNullish(descriptor[m].value) THEN descriptor[m].value
    ELSE descriptor[m].get

Callable(m) == NotNullish(MemberFunction(m))

(***************************************************************************)
(* The tag registry: clearCacheTagsMap.get(tag), created on first use, and *)
(* caches.push(myCache) for each tag of the member, on every call.         *)
(***************************************************************************)
RECURSIVE Register(_, _, _, _)
Register(map, tags, n, id) ==
    IF n > Len(tags) THEN map
    ELSE LET tag == tags[n]
             caches == IF tag \in DOMAIN map THEN map[tag] ELSE <<>>
         IN Register((tag :> Append(caches, id)) @@ map, tags, n + 1, id)

Pushes(map, tag, id) ==
    IF tag \in DOMAIN map
    THEN Cardinality({n \in 1..Len(map[tag]) : map[tag][n] = id})
    ELSE 0

(***************************************************************************)
(* One call of the memoized function on instance i: lines 95-150.          *)
(* heap and args are the arguments, outcome what the original method does  *)
(* if it is invoked.                                                       *)
(***************************************************************************)
\* What the original method does when it is invoked for the n-th time on an
\* instance: it returns a value no earlier invocation returned (the tests
\* return Math.random()), returns undefined, or throws.
OutcomeKinds == {"value", "undefined", "throw"}

Outcome(kind, n) ==
    CASE kind = "value" -> [kind |-> "return", value |-> Num(n)]
      [] kind = "undefined" -> [kind |-> "return", value |-> Undefined]
      [] kind = "throw" -> [kind |-> "throw", value |-> Str("Error")]

\* Mutant: the cache is kept on one object that all instances share.
CacheOwner_Shared(i, m) == <<"a", m>>

\* Mutant: the cache is kept under one property name for all members.
CacheOwner_OnePerInstance(i, m) == <<i, CHOOSE x \in DOMAIN descriptor : TRUE>>

\* this[propCacheName]: the cache is a property of the instance itself.
CacheOwner(i, m) == <<i, m>>

\* Mutant: the result is stored as it is, undefined included.
ToStored_Raw(v) == v

\* returnedValue === undefined ? UNDEFINED_SENTINEL : returnedValue
ToStored(v) == IF v = Undefined THEN UNDEFINED_SENTINEL ELSE v

\* Mutant: what the cache holds is returned as it is.
FromStored_Raw(v) == v

\* if (returnedValue === UNDEFINED_SENTINEL) return undefined
FromStored(v) == IF v = UNDEFINED_SENTINEL THEN Undefined ELSE v

\* Mutant: a failed computation leaves an entry behind.
AfterThrow_Cached(c, k, t) == AfterLruSet(c, k, UNDEFINED_SENTINEL, t)

\* originalMethod.apply throws: the exception leaves the function before
\* myCache.set is reached.
AfterThrow(c, k, t) == c

\* Mutant: a ttl is passed on whatever it is, a millisecond if it is not
\* positive.
CacheOptions_TtlAlways(f) ==
    [max |-> f.maxSize, ttl |-> IF f.ttl > 0 THEN f.ttl ELSE 1,
     ttlAutopurge |-> TRUE]

\* const options = { max: maxSize }; if (ttl && ttl > 0) { ... }
CacheOptions(f) ==
    IF f.ttl > 0
    THEN [max |-> f.maxSize, ttl |-> f.ttl, ttlAutopurge |-> TRUE]
    ELSE [max |-> f.maxSize]

\* elapsed is the time that passes during the call, between the lookup and
\* what follows it: the read of the entry, or the computation and the store.
MemoizedCall(i, m, heap, args, kind, elapsed) ==
    LET f == MemberFunction(m)
        id == CacheOwner(i, m)
        options == CacheOptions(f)
        error == IF propCache[id] = NoCache THEN LRUCacheError(options) ELSE ""
        myCache == IF propCache[id] = NoCache
                   THEN NewLRUCache(options) ELSE propCache[id]
        hashed == IF f.hashFunction # NoHash
                  THEN ApplyHashFunction(f.hashFunction, args)
                  ELSE [kind |-> "return", value |-> hashArgs(heap, args)]
        hashKey == hashed.value
        checked == AfterLruHas(myCache, hashKey, now)
        later == now + elapsed
        outcome == Outcome(kind, spy[<<i, m>>] + 1)
        stored == ToStored(outcome.value)
        call == [op |-> "call", inst |-> i, mem |-> m, heap |-> heap,
                 args |-> args, hashed |-> TRUE, key |-> hashKey,
                 took |-> elapsed]
        thrown == [op |-> "call", inst |-> i, mem |-> m, heap |-> heap,
                   args |-> args, hashed |-> FALSE, key |-> "",
                   took |-> elapsed,
                   computed |-> FALSE, outcome |-> "throw", sets |-> <<>>]
    IN /\ Callable(m) /\ f.memoized
       /\ later <= MaxTime
       /\ now' = later
       /\ descriptor' = descriptor
       /\ IF error # ""
          THEN /\ UNCHANGED <<propCache, clearCacheTagsMap, spy>>
               /\ last' = thrown @@ [ret |-> Str("TypeError: " \o error)]
          ELSE
          /\ \A n \in 1..Len(f.tags) :
                 Pushes(clearCacheTagsMap, f.tags[n], id) < MaxPush
          /\ clearCacheTagsMap' = Register(clearCacheTagsMap, f.tags, 1, id)
          /\ IF hashed.kind = "throw"
             THEN /\ propCache' = [propCache EXCEPT ![id] = myCache]
                  /\ spy' = spy
                  /\ last' = thrown @@ [ret |-> hashed.value]
             ELSE IF LruHas(myCache, hashKey, now)
             THEN /\ propCache' = [propCache EXCEPT
                          ![id] = AfterLruGet(checked, hashKey, later)]
                  /\ spy' = spy
                  /\ last' = call @@
                        [computed |-> FALSE, outcome |-> "return", sets |-> <<>>,
                         ret |-> FromStored(LruGet(checked, hashKey, later))]
             ELSE /\ spy[<<i, m>>] < MaxCalls
                  /\ spy' = [spy EXCEPT ![<<i, m>>] = @ + 1]
                  /\ IF outcome.kind = "throw"
                     THEN /\ propCache' = [propCache EXCEPT
                                  ![id] = AfterThrow(checked, hashKey, later)]
                          /\ last' = call @@
                                [computed |-> TRUE, outcome |-> "throw",
                                 sets |-> <<>>, ret |-> outcome.value]
                     ELSE /\ propCache' = [propCache EXCEPT ![id] =
                                  AfterLruSet(checked, hashKey, stored, later)]
                          /\ last' = call @@
                                [computed |-> TRUE, outcome |-> "return",
                                 sets |-> <<[key |-> hashKey, value |-> stored,
                                   live |-> LruHas(checked, hashKey, later)]>>,
                                 ret |-> outcome.value]

\* A call whose original method calls the same member with the same
\* arguments once before it returns: the inner call runs lines 95-150 from
\* start to end while the outer call is at line 141.  The inner invocation
\* of the original method goes no deeper and returns; innerKind and kind are
\* what the inner and the outer invocation return.
ReenteringCall(i, m, heap, args, innerKind, kind) ==
    LET f == MemberFunction(m)
        id == CacheOwner(i, m)
        error == IF propCache[id] = NoCache
                 THEN LRUCacheError(CacheOptions(f)) ELSE ""
        myCache == IF propCache[id] = NoCache
                   THEN NewLRUCache(CacheOptions(f)) ELSE propCache[id]
        hashKey == hashArgs(heap, args)
        checked == AfterLruHas(myCache, hashKey, now)
        outcome == Outcome(kind, spy[<<i, m>>] + 1)
        \* the inner call: lookup, computation, store
        innerChecked == AfterLruHas(checked, hashKey, now)
        inner == Outcome(innerKind, spy[<<i, m>>] + 2)
        innerSet == [key |-> hashKey, value |-> ToStored(inner.value),
                     live |-> LruHas(innerChecked, hashKey, now)]
        afterInner == AfterLruSet(innerChecked, hashKey, innerSet.value, now)
        \* the outer call goes on after originalMethod.apply
        outerSet == [key |-> hashKey, value |-> ToStored(outcome.value),
                     live |-> LruHas(afterInner, hashKey, now)]
        call == [op |-> "call", inst |-> i, mem |-> m, heap |-> heap,
                 args |-> args, hashed |-> TRUE, key |-> hashKey,
                 took |-> 0, computed |-> TRUE, inner |-> inner.value]
    IN /\ Callable(m) /\ f.memoized /\ f.hashFunction = NoHash
       /\ error = ""
       /\ innerKind # "throw"
       /\ ~LruHas(myCache, hashKey, now)
       /\ \A n \in 1..Len(f.tags) :
              Pushes(clearCacheTagsMap, f.tags[n], id) + 1 < MaxPush
       /\ clearCacheTagsMap' =
              Register(Register(clearCacheTagsMap, f.tags, 1, id), f.tags, 1, id)
       /\ spy[<<i, m>>] + 1 < MaxCalls
       /\ spy' = [spy EXCEPT ![<<i, m>>] = @ + 2]
       /\ UNCHANGED <<descriptor, now>>
       /\ IF outcome.kind = "throw"
          THEN /\ propCache' = [propCache EXCEPT
                       ![id] = AfterThrow(afterInner, hashKey, now)]
               /\ last' = call @@ [outcome |-> "throw", ret |-> outcome.value,
                                    sets |-> <<innerSet>>]
          ELSE /\ propCache' = [propCache EXCEPT ![id] =
                       AfterLruSet(afterInner, hashKey, outerSet.value, now)]
               /\ last' = call @@ [outcome |-> "return", ret |-> outcome.value,
                                    sets |-> <<innerSet, outerSet>>]

(***************************************************************************)
(* clear(tags): lines 45-59.  cleared is the Set of the caches cleared so  *)
(* far, calls the cache.clear() invocations in the order they were made.   *)
(***************************************************************************)
\* Mutant: a cache is cleared each time it is met, the Set is not consulted.
RECURSIVE ClearCaches_NoDedupe(_, _, _)
ClearCaches_NoDedupe(caches, n, acc) ==
    IF n > Len(caches) THEN acc
    ELSE ClearCaches_NoDedupe(caches, n + 1,
            [cleared |-> acc.cleared \cup {caches[n]},
             calls |-> Append(acc.calls, caches[n])])

RECURSIVE ClearCaches(_, _, _)
ClearCaches(caches, n, acc) ==
    IF n > Len(caches) THEN acc
    ELSE ClearCaches(caches, n + 1,
            IF caches[n] \notin acc.cleared
            THEN [cleared |-> acc.cleared \cup {caches[n]},
                  calls |-> Append(acc.calls, caches[n])]
            ELSE acc)

\* Mutant: the tags given are not looked at, every registered tag is cleared.
RECURSIVE ClearTags_EveryTag(_, _, _, _)
ClearTags_EveryTag(map, tags, n, acc) ==
    IF DOMAIN map = {} \/ n > Len(tags) THEN acc
    ELSE LET tag == CHOOSE x \in DOMAIN map : TRUE
             rest == [x \in DOMAIN map \ {tag} |-> map[x]]
         IN ClearTags_EveryTag(rest, tags, n, ClearCaches(map[tag], 1, acc))

RECURSIVE ClearTags(_, _, _, _)
ClearTags(map, tags, n, acc) ==
    IF n > Len(tags) THEN acc
    ELSE ClearTags(map, tags, n + 1,
            IF tags[n] \in DOMAIN map
            THEN ClearCaches(map[tags[n]], 1, acc) ELSE acc)

RECURSIVE ApplyClears(_, _, _)
ApplyClears(caches, calls, n) ==
    IF n > Len(calls) THEN caches
    ELSE ApplyClears([caches EXCEPT ![calls[n]] = AfterLruClear(@)], calls, n + 1)

\* Mutant: the tags cleared are dropped from the registry.
clear_Unregistering(tags) ==
    LET done == ClearTags(clearCacheTagsMap, tags, 1,
                          [cleared |-> {}, calls |-> <<>>])
    IN /\ propCache' = ApplyClears(propCache, done.calls, 1)
       /\ clearCacheTagsMap' =
              [tag \in DOMAIN clearCacheTagsMap \ {tags[n] : n \in 1..Len(tags)} |->
                  clearCacheTagsMap[tag]]
       /\ last' = [op |-> "clear", tags |-> tags, calls |-> done.calls,
                    ret |-> Cardinality(done.cleared)]
       /\ UNCHANGED <<descriptor, now, spy>>

clear(tags) ==
    LET done == ClearTags(clearCacheTagsMap, tags, 1,
                          [cleared |-> {}, calls |-> <<>>])
    IN /\ propCache' = ApplyClears(propCache, done.calls, 1)
       /\ last' = [op |-> "clear", tags |-> tags, calls |-> done.calls,
                    ret |-> Cardinality(done.cleared)]
       /\ UNCHANGED <<descriptor, clearCacheTagsMap, now, spy>>

(***************************************************************************)
(* Time: the clock advances, and the timers the store has set run when the *)
(* event loop gets to them, not before they are due.                       *)
(***************************************************************************)
Tick ==
    /\ now < MaxTime
    /\ now' = now + 1
    /\ last' = [op |-> "tick"]
    /\ UNCHANGED <<descriptor, propCache, clearCacheTagsMap, spy>>

\* setTimeout(() => (cachedNow = 0), ttlResolution), ttlResolution = 1
CachedNowTimer(id) ==
    LET c == propCache[id]
    IN /\ c # NoCache
       /\ c.cachedNow # 0
       /\ now >= c.cachedNow + 1
       /\ propCache' = [propCache EXCEPT ![id].cachedNow = 0]
       /\ last' = [op |-> "timer"]
       /\ UNCHANGED <<descriptor, clearCacheTagsMap, now, spy>>

\* ttlAutopurge: setTimeout(() => { if (isStale(index)) delete }, ttl + 1),
\* set when the entry is stored.
AutopurgeTimer(id, k) ==
    LET c == propCache[id]
        n == IndexOf(c.entries, k)
        e == c.entries[n]
    IN /\ c.ttlAutopurge
       /\ n # 0
       /\ now >= e.start + c.ttl + 1
       /\ propCache' = [propCache EXCEPT ![id] =
              IF isStale(c, e, now)
              THEN [AfterClockRead(c, now) EXCEPT !.entries = Without(c.entries, n)]
              ELSE AfterClockRead(c, now)]
       /\ last' = [op |-> "autopurge", id |-> id, key |-> k]
       /\ UNCHANGED <<descriptor, clearCacheTagsMap, now, spy>>

(***************************************************************************)
(* The programs checked: a class, its instances, the calls made on them.   *)
(***************************************************************************)
NoArgs == [x \in {} |-> 0]

InitWith(class, objects) ==
    /\ descriptor = class
    /\ propCache = [id \in objects \X DOMAIN class |-> NoCache]
    /\ clearCacheTagsMap = <<>>
    /\ now = 1
    /\ spy = [id \in objects \X DOMAIN class |-> 0]
    /\ last = [op |-> "start"]

Entries(id) == IF propCache[id] = NoCache THEN <<>> ELSE propCache[id].entries

Decorate == \E m \in DOMAIN descriptor : Memoize(m)

\* A method is called with one of the argument lists, an accessor is read.
CallWith(argLists) ==
    \E id \in DOMAIN propCache, kind \in OutcomeKinds :
        \E args \in IF NotNullish(descriptor[id[2]].get) THEN {<<>>} ELSE argLists :
            MemoizedCall(id[1], id[2], EmptyHeap, args, kind, 0)

\* A method is called and the clock advances while the call runs: between
\* myCache.has and myCache.get on a hit, during the computation on a miss.
CallTaking(argLists, durations) ==
    \E id \in DOMAIN propCache, kind \in OutcomeKinds :
        \E args \in argLists, elapsed \in durations :
            MemoizedCall(id[1], id[2], EmptyHeap, args, kind, elapsed)

\* A method that returns a value is called with arguments that refer to
\* objects of a heap.
CallWithObjects(inputs) ==
    \E id \in DOMAIN propCache, input \in inputs :
        MemoizedCall(id[1], id[2], input.heap, input.args, "value", 0)

\* A method whose body calls the method again is called.
ReenterWith(argLists) ==
    \E id \in DOMAIN propCache, args \in argLists :
        \E innerKind \in OutcomeKinds \ {"throw"}, kind \in OutcomeKinds :
            ReenteringCall(id[1], id[2], EmptyHeap, args, innerKind, kind)

ClearWith(tagLists) == \E tags \in tagLists : clear(tags)

\* Two instances of a class with one memoized method.
BasicClass == [getGreeting |-> Method(NoArgs)]

Init == InitWith(BasicClass, {"a", "b"})

Next ==
    \/ Decorate
    \/ CallWith({<<Str("x")>>, <<Str("y")>>})
    \/ ClearWith({<<"unknown">>})

Spec == Init /\ [][Next]_vars

\* One instance of a class whose methods carry the tags of the README.
TaggedClass ==
    [getGreeting4 |-> Method([tags |-> <<"foo", "bar">>]),
     getSum |-> Method([tags |-> <<"bar">>])]

InitTags == InitWith(TaggedClass, {"a"})

NextTags ==
    \/ Decorate
    \/ CallWith({<<>>})
    \/ ClearWith({<<"foo">>, <<"bar">>, <<"unknown">>, <<"foo", "bar">>,
                  <<"bar", "bar">>})

SpecTags == InitTags /\ [][NextTags]_vars

\* One instance with the size-limited method of the tests, an accessor and a
\* data field that carries the decorator.
LimitedClass ==
    [limitedCache |-> Method([maxSize |-> 2]),
     value |-> Accessor(NoArgs),
     plain |-> Field(NoArgs)]

InitLRU == InitWith(LimitedClass, {"a"})

NextLRU ==
    \/ Decorate
    \/ CallWith({<<Str("a")>>, <<Str("b")>>, <<Str("c")>>})
    \/ ClearWith({<<"unknown">>})

SpecLRU == InitLRU /\ [][NextLRU]_vars

\* One instance with the expiring method of the tests; ttl in clock ticks.
ExpiringClass == [expiringCache |-> Method([ttl |-> 2])]

InitTTL == InitWith(ExpiringClass, {"a"})

NextTTL ==
    \/ Decorate
    \/ CallWith({<<Str("x")>>, <<Str("y")>>})
    \/ ClearWith({<<"unknown">>})
    \/ Tick
    \/ \E id \in DOMAIN propCache : CachedNowTimer(id)
    \/ \E id \in DOMAIN propCache :
          \E n \in 1..Len(Entries(id)) :
             AutopurgeTimer(id, Entries(id)[n].key)

SpecTTL == InitTTL /\ [][NextTTL]_vars

\* One instance with the method of the tests that has a custom hash function,
\* called with numbers, with strings that read the same, with a third
\* argument the function does not look at, and with a symbol.
HashedClass == [multiply |-> Method([hashFunction |-> PairHash])]

InitHash == InitWith(HashedClass, {"a"})

NextHash ==
    \/ Decorate
    \/ CallWith({<<Num(3), Num(5)>>, <<Str("3"), Str("5")>>,
                 <<Num(3), Num(5), Num(7)>>, <<Num(4), Num(6)>>,
                 <<Sym("s"), Num(5)>>})
    \/ ClearWith({<<"unknown">>})

SpecHash == InitHash /\ [][NextHash]_vars

\* One instance with a method that takes objects and arrays and is hashed by
\* default.  Each argument list comes with the heap its references point
\* into; reference r is the r-th object of the heap.
ComplexClass == [processObject |-> Method([maxSize |-> 2])]

Input(heap, args) == [heap |-> heap, args |-> args]

\* { a: 1, b: 2 }, { b: 2, a: 1 } and { a: 2, b: 2 }
ObjectAB == Input(<<Obj(<<"a", "b">>, [a |-> Num(1), b |-> Num(2)])>>, <<Ref(1)>>)
ObjectBA == Input(<<Obj(<<"b", "a">>, [a |-> Num(1), b |-> Num(2)])>>, <<Ref(1)>>)
ObjectOther ==
    Input(<<Obj(<<"a", "b">>, [a |-> Num(2), b |-> Num(2)])>>, <<Ref(1)>>)

\* { c: { a: 1, b: 2 } } and { c: { b: 2, a: 1 } }
NestedAB ==
    Input(<<Obj(<<"c">>, [c |-> Ref(2)]),
            Obj(<<"a", "b">>, [a |-> Num(1), b |-> Num(2)])>>, <<Ref(1)>>)
NestedBA ==
    Input(<<Obj(<<"c">>, [c |-> Ref(2)]),
            Obj(<<"b", "a">>, [a |-> Num(1), b |-> Num(2)])>>, <<Ref(1)>>)

\* [1, 2] and [2, 1]
Array12 == Input(<<Arr(<<Num(1), Num(2)>>)>>, <<Ref(1)>>)
Array21 == Input(<<Arr(<<Num(2), Num(1)>>)>>, <<Ref(1)>>)

\* undefined and null
JustUndefined == Input(EmptyHeap, <<Undefined>>)
JustNull == Input(EmptyHeap, <<Null>>)

\* circular = { a: 1 }; circular.self = circular
CircularSelf ==
    Input(<<Obj(<<"a", "self">>, [a |-> Num(1), self |-> Ref(1)])>>, <<Ref(1)>>)
\* holder = { c: [holder] }
CircularThroughArray ==
    Input(<<Obj(<<"c">>, [c |-> Ref(2)]), Arr(<<Ref(1)>>)>>, <<Ref(1)>>)

\* (o, o) with o = { a: 1 }, ({ a: 1 }, { a: 1 }) and (o, "[Circular]")
SameTwice == Input(<<Obj(<<"a">>, [a |-> Num(1)])>>, <<Ref(1), Ref(1)>>)
TwoEqual ==
    Input(<<Obj(<<"a">>, [a |-> Num(1)]), Obj(<<"a">>, [a |-> Num(1)])>>,
          <<Ref(1), Ref(2)>>)
MarkerString ==
    Input(<<Obj(<<"a">>, [a |-> Num(1)])>>, <<Ref(1), Str(CircularMarker)>>)

ComplexInputs ==
    {ObjectAB, ObjectBA, ObjectOther, NestedAB, NestedBA, Array12, Array21,
     JustUndefined, JustNull, CircularSelf, CircularThroughArray,
     SameTwice, TwoEqual, MarkerString}

InitDeep == InitWith(ComplexClass, {"a"})

NextDeep ==
    \/ Decorate
    \/ CallWithObjects(ComplexInputs)
    \/ ClearWith({<<"unknown">>})

SpecDeep == InitDeep /\ [][NextDeep]_vars

\* One instance with a size-limited method that can be cleared by tag.
SizedClass == [limitedCache |-> Method([maxSize |-> 2, tags |-> <<"sized">>])]

InitSized == InitWith(SizedClass, {"a"})

NextSized ==
    \/ Decorate
    \/ CallWith({<<Str("a")>>, <<Str("b")>>, <<Str("c")>>})
    \/ ClearWith({<<"sized">>, <<"unknown">>})

SpecSized == InitSized /\ [][NextSized]_vars

\* One instance with a method that has the default ttl and one with a
\* negative ttl, called while the clock advances.
UnexpiringClass ==
    [defaultMethod |-> Method(NoArgs),
     negativeTtl |-> Method([ttl |-> -1])]

InitNoTTL == InitWith(UnexpiringClass, {"a"})

NextNoTTL ==
    \/ Decorate
    \/ CallWith({<<Str("test")>>})
    \/ ClearWith({<<"unknown">>})
    \/ Tick

SpecNoTTL == InitNoTTL /\ [][NextNoTTL]_vars

\* One instance with a memoized method that is called from outside and, once
\* per outside call at most, from its own body.
ReentrantClass == [getData |-> Method(NoArgs)]

InitReentrant == InitWith(ReentrantClass, {"a"})

NextReentrant ==
    \/ Decorate
    \/ CallWith({<<Str("x")>>, <<Str("y")>>})
    \/ ReenterWith({<<Str("x")>>, <<Str("y")>>})
    \/ ClearWith({<<"unknown">>})

SpecReentrant == InitReentrant /\ [][NextReentrant]_vars

\* One instance with members whose maxSize is not positive: 0, -1, and 0
\* together with a ttl.
ZeroSizeClass ==
    [zeroSize |-> Method([maxSize |-> 0]),
     negativeSize |-> Method([maxSize |-> -1]),
     zeroSizeExpiring |-> Method([maxSize |-> 0, ttl |-> 2])]

InitZero == InitWith(ZeroSizeClass, {"a"})

NextZero ==
    \/ Decorate
    \/ CallWith({<<Str("x")>>})
    \/ ClearWith({<<"unknown">>})
    \/ Tick
    \/ \E id \in DOMAIN propCache : CachedNowTimer(id)
    \/ \E id \in DOMAIN propCache :
          \E n \in 1..Len(Entries(id)) :
             AutopurgeTimer(id, Entries(id)[n].key)

SpecZero == InitZero /\ [][NextZero]_vars

\* The expiring method again, with calls during which up to ttl ticks pass.
InitRace == InitWith(ExpiringClass, {"a"})

NextRace ==
    \/ Decorate
    \/ CallTaking({<<Str("x")>>}, {0, 1, 2})
    \/ ClearWith({<<"unknown">>})
    \/ Tick
    \/ \E id \in DOMAIN propCache : CachedNowTimer(id)
    \/ \E id \in DOMAIN propCache :
          \E n \in 1..Len(Entries(id)) :
             AutopurgeTimer(id, Entries(id)[n].key)

SpecRace == InitRace /\ [][NextRace]_vars

(***************************************************************************)
(* Properties.                                                             *)
(***************************************************************************)
Range(f) == {f[n] : n \in DOMAIN f}

EntriesOf(c) == IF c = NoCache THEN <<>> ELSE c.entries

KeysOf(c) == [n \in 1..Len(EntriesOf(c)) |-> EntriesOf(c)[n].key]

\* The cache c has an entry for key k / the value stored in it.
Holds(c, k) == IndexOf(EntriesOf(c), k) # 0
StoredIn(c, k) == EntriesOf(c)[IndexOf(EntriesOf(c), k)].value

\* The entry of k has not reached insertionTime + ttl.
Unexpired(c, k) ==
    c.ttl = 0 \/ now < EntriesOf(c)[IndexOf(EntriesOf(c), k)].start + c.ttl

\* The step is a memoized call / the cache and key it is about.
CallStep == last'.op = "call"
CalledId == <<last'.inst, last'.mem>>
SameCallAgain ==
    /\ last.op = "call" /\ last'.op = "call"
    /\ last'.inst = last.inst /\ last'.mem = last.mem /\ last'.key = last.key

\* C1: a call whose key has an entry in the instance's cache (stored by an
\* earlier call that returned, and not evicted, expired or cleared since)
\* returns the value of that entry and does not invoke the original method;
\* and a call that invokes it and returns leaves its result stored under the
\* key.
C1_CachedResultReturned ==
    [][CallStep =>
        LET before == propCache[CalledId]
            after == propCache'[CalledId]
            k == last'.key
        IN /\ (Holds(before, k) /\ Unexpired(before, k)) =>
                 /\ ~last'.computed
                 /\ spy' = spy
                 /\ last'.outcome = "return"
                 /\ last'.ret = IF StoredIn(before, k) = UNDEFINED_SENTINEL
                                 THEN Undefined ELSE StoredIn(before, k)
           /\ (last'.computed /\ last'.outcome = "return") =>
                 /\ Holds(after, k)
                 /\ StoredIn(after, k) = IF last'.ret = Undefined
                                          THEN UNDEFINED_SENTINEL ELSE last'.ret
    ]_vars

\* A call was answered from the cache with the value an invocation returned.
C1_Witness ==
    /\ last.op = "call" /\ ~last.computed
    /\ last.ret = Num(1)
    /\ spy[<<last.inst, last.mem>>] = 1

\* C2: a call on one instance changes no other instance's cache and invokes
\* the original method exactly when the instance's own cache has no entry
\* for the key, whatever the other instances have cached.
C2_PerInstanceIsolation ==
    [][CallStep =>
        /\ \A o \in DOMAIN propCache \ {CalledId} :
               propCache'[o] = propCache[o] /\ spy'[o] = spy[o]
        /\ last'.computed <=> ~Holds(propCache[CalledId], last'.key)
        /\ last'.computed <=> spy'[CalledId] = spy[CalledId] + 1
    ]_vars

\* Both instances were called with the same arguments, b after a, and each
\* invoked the original method once and holds its own result.
C2_Witness ==
    /\ last.op = "call" /\ last.inst = "b" /\ last.computed
    /\ Holds(propCache[<<"a", last.mem>>], last.key)
    /\ Holds(propCache[<<"b", last.mem>>], last.key)
    /\ spy[<<"a", last.mem>>] = 1 /\ spy[<<"b", last.mem>>] = 1

\* C3: when a call returned undefined, the same call made again right after
\* it returns undefined too and does not invoke the original method.
C3_UndefinedRoundTrip ==
    [][(SameCallAgain /\ last.outcome = "return" /\ last.ret = Undefined) =>
        /\ ~last'.computed
        /\ spy' = spy
        /\ last'.outcome = "return"
        /\ last'.ret = Undefined
    ]_vars

\* A call was answered with undefined from the cache, after one invocation.
C3_Witness ==
    /\ last.op = "call" /\ ~last.computed /\ last.ret = Undefined
    /\ spy[<<last.inst, last.mem>>] = 1

\* C9: a call whose original method throws ends with that error, leaves the
\* entries of the cache as they were, with none for its key; the same call
\* made again right after it invokes the original method again.
C9_ComputationError ==
    [][/\ (CallStep /\ last'.computed /\ last'.outcome = "throw") =>
            /\ last'.ret = Str("Error")
            /\ EntriesOf(propCache'[CalledId]) = EntriesOf(propCache[CalledId])
            /\ ~Holds(propCache'[CalledId], last'.key)
       /\ (SameCallAgain /\ last.computed /\ last.outcome = "throw") =>
            /\ last'.computed
            /\ spy'[CalledId] = spy[CalledId] + 1
    ]_vars

\* The original method threw twice for a key while another key stayed cached.
C9_Witness ==
    /\ last.op = "call" /\ last.outcome = "throw"
    /\ spy[<<last.inst, last.mem>>] = 3
    /\ KeysOf(propCache[<<last.inst, last.mem>>]) # <<>>
    /\ EntriesOf(propCache[<<last.inst, last.mem>>])[1].value = Num(1)

\* A member that is neither a method nor an accessor.
NeitherMethodNorAccessor(d) ==
    d.value \in {Undefined, Null} /\ d.get \in {Undefined, Null}

IsMemoized(x) == x \notin {Undefined, Null} /\ x.memoized

RegisteredUnder(map, tags) ==
    UNION {Range(map[tag]) : tag \in Range(tags) \cap DOMAIN map}

\* The tags written on member m.
TagsOn(m) ==
    IF "tags" \in DOMAIN descriptor[m].args
    THEN Range(descriptor[m].args.tags) ELSE {}

\* C4: clear(T) empties the caches registered under a tag of T and leaves
\* every other cache as it was; a cache with entries whose member carries a
\* tag of T is among the emptied ones, a cache whose member carries none is
\* untouched; the call right after the clear invokes the original method if
\* its member carries a tag of T and is answered from the cache if it
\* carries none and had an entry.
C4_ClearByTag ==
    [][/\ last'.op = "clear" =>
            \A id \in DOMAIN propCache :
               /\ IF id \in RegisteredUnder(clearCacheTagsMap, last'.tags)
                  THEN EntriesOf(propCache'[id]) = <<>>
                  ELSE propCache'[id] = propCache[id]
               /\ (TagsOn(id[2]) \cap Range(last'.tags) # {}) =>
                      EntriesOf(propCache'[id]) = <<>>
               /\ (TagsOn(id[2]) \cap Range(last'.tags) = {}) =>
                      propCache'[id] = propCache[id]
       /\ (last.op = "clear" /\ CallStep) =>
            IF TagsOn(last'.mem) \cap Range(last.tags) # {}
            THEN last'.computed
            ELSE Holds(propCache[CalledId], last'.key) => ~last'.computed
    ]_vars

\* clear(["foo"]) has emptied the cache of the member tagged foo and bar and
\* left the entry of the member tagged bar alone.
C4_Witness ==
    /\ last.op = "clear" /\ last.tags = <<"foo">>
    /\ last.calls = << <<"a", "getGreeting4">> >>
    /\ spy[<<"a", "getGreeting4">>] = 1
    /\ EntriesOf(propCache[<<"a", "getGreeting4">>]) = <<>>
    /\ Holds(propCache[<<"a", "getSum">>], "[]")

\* C5: clear(T) returns the number of distinct caches registered under the
\* tags of T and calls clear() on each of them once, however often the cache
\* or the tag is repeated; with no registered tag in T it returns 0 and
\* changes no cache.
C5_ClearCount ==
    [][last'.op = "clear" =>
        LET reg == RegisteredUnder(clearCacheTagsMap, last'.tags)
        IN /\ last'.ret = Cardinality(reg)
           /\ Range(last'.calls) = reg
           /\ Len(last'.calls) = Cardinality(reg)
           /\ (Range(last'.tags) \cap DOMAIN clearCacheTagsMap = {}) =>
                 (last'.ret = 0 /\ propCache' = propCache)
    ]_vars

\* clear(["foo", "bar"]) returned 2 although the first cache was pushed
\* under both tags, several times each.
C5_Witness ==
    /\ last.op = "clear" /\ last.tags = <<"foo", "bar">> /\ last.ret = 2
    /\ Pushes(clearCacheTagsMap, "foo", <<"a", "getGreeting4">>) >= 2
    /\ Pushes(clearCacheTagsMap, "bar", <<"a", "getGreeting4">>) >= 2
    /\ Pushes(clearCacheTagsMap, "bar", <<"a", "getSum">>) >= 1

\* The maxSize written on member m, 1000 if none is.
MaxSizeOn(m) ==
    IF "maxSize" \in DOMAIN descriptor[m].args
    THEN descriptor[m].args.maxSize ELSE 1000

KeyOf(args) == hashArgs(EmptyHeap, args)

\* C6: a call that invokes the original method and returns leaves its key
\* cached as the most recent one; if the cache already held maxSize other
\* keys, the oldest of them (the first inserted, when no hit came between)
\* is gone and the rest stay; a key that is not cached is computed again.
C6_CapacityEviction ==
    [][CallStep =>
        LET keys == KeysOf(propCache[CalledId])
            after == KeysOf(propCache'[CalledId])
            k == last'.key
        IN /\ (last'.computed /\ last'.outcome = "return") =>
                 /\ after # <<>> /\ after[Len(after)] = k
                 /\ (k \notin Range(keys) /\ Len(keys) = MaxSizeOn(last'.mem)) =>
                        after = Append(Tail(keys), k)
                 /\ (k \notin Range(keys) /\ Len(keys) < MaxSizeOn(last'.mem)) =>
                        after = Append(keys, k)
           /\ k \notin Range(keys) => last'.computed
    ]_vars

\* maxSize = 2 and the calls a, b, c, a: the fourth call computed a again,
\* and c is still cached.
C6_Witness ==
    /\ last.op = "call" /\ last.mem = "limitedCache" /\ last.computed
    /\ last.key = KeyOf(<<Str("a")>>)
    /\ spy[<<"a", "limitedCache">>] = 4
    /\ EntriesOf(propCache[<<"a", "limitedCache">>]) =
          << [key |-> KeyOf(<<Str("c")>>), value |-> Num(3), start |-> 0],
             [key |-> KeyOf(<<Str("a")>>), value |-> Num(4), start |-> 0] >>

\* C7: a call answered from the cache makes its key the most recent one and
\* keeps the order of the others, so the key a full cache loses to a new key
\* is the one least recently inserted or read.
C7_TrueLRU ==
    [][CallStep =>
        LET keys == KeysOf(propCache[CalledId])
            after == KeysOf(propCache'[CalledId])
            k == last'.key
            others == SelectSeq(keys, LAMBDA x : x # k)
        IN /\ ~last'.computed => after = Append(others, k)
           /\ (last'.computed /\ last'.outcome = "return") =>
                 after = Append(IF Len(others) = MaxSizeOn(last'.mem)
                                THEN Tail(others) ELSE others, k)
           /\ (last'.computed /\ last'.outcome = "throw") => after = keys
    ]_vars

\* maxSize = 2 and the calls a, b, a, c: b was evicted, a is still cached
\* with the value of its first computation.
C7_Witness ==
    /\ last.op = "call" /\ last.mem = "limitedCache" /\ last.computed
    /\ last.key = KeyOf(<<Str("c")>>)
    /\ spy[<<"a", "limitedCache">>] = 3
    /\ EntriesOf(propCache[<<"a", "limitedCache">>]) =
          << [key |-> KeyOf(<<Str("a")>>), value |-> Num(1), start |-> 0],
             [key |-> KeyOf(<<Str("c")>>), value |-> Num(3), start |-> 0] >>

\* The entry a cache holds under key k.
EntryOf(c, k) == EntriesOf(c)[IndexOf(EntriesOf(c), k)]

\* The ttl written on member m, 0 if none is.
TtlOn(m) ==
    IF "ttl" \in DOMAIN descriptor[m].args THEN descriptor[m].args.ttl ELSE 0

\* The reading of the clock a cache uses to judge staleness: the reading it
\* kept from an earlier look at the clock, or else the current time.
Reading(c) == IF c.cachedNow # 0 THEN c.cachedNow ELSE now

\* C8 as stated: with a ttl, a call for a cached key made at or after the
\* time of its insertion plus the ttl is a miss and computes again.
C8_ExpiresAtTtl ==
    [][(CallStep /\ TtlOn(last'.mem) > 0 /\ Holds(propCache[CalledId], last'.key)
          /\ now >= EntryOf(propCache[CalledId], last'.key).start + TtlOn(last'.mem))
        => last'.computed
    ]_vars

\* C8: with a ttl, a call for a cached key made no later than the time of its
\* insertion plus the ttl returns the stored value without computing; a call
\* is answered from the cache only while the cache's reading of the clock is
\* at most that time, and computes again once the reading is past it (the
\* reading is the current time whenever no earlier reading is kept); a call
\* answered from the cache leaves the insertion time as it was, and a
\* computation that returns stores its value with the current time.
C8_ExpiresAfterTtl ==
    [][(CallStep /\ TtlOn(last'.mem) > 0) =>
        LET c == propCache[CalledId]
            k == last'.key
            ttl == TtlOn(last'.mem)
            e == EntryOf(c, k)
            e2 == EntryOf(propCache'[CalledId], k)
        IN /\ (Holds(c, k) /\ now <= e.start + ttl) =>
                 /\ ~last'.computed
                 /\ last'.ret = FromStored(e.value)
           /\ ~last'.computed =>
                 /\ Holds(c, k)
                 /\ Reading(c) <= e.start + ttl
                 /\ Holds(propCache'[CalledId], k)
                 /\ e2.start = e.start /\ e2.value = e.value
           /\ (Holds(c, k) /\ Reading(c) > e.start + ttl) => last'.computed
           /\ (Holds(c, k) /\ c.cachedNow = 0 /\ now > e.start + ttl) =>
                 last'.computed
           /\ (last'.computed /\ last'.outcome = "return") =>
                 /\ Holds(propCache'[CalledId], k)
                 /\ e2.start = now
    ]_vars

\* ttl = 2: the value stored at time 1 was found expired at time 4 and
\* computed again, and the call after that was answered with the second
\* value, which keeps its insertion time.
C8_Witness ==
    /\ last.op = "call" /\ last.mem = "expiringCache" /\ ~last.computed
    /\ last.ret = Num(2)
    /\ now = 5
    /\ spy[<<"a", "expiringCache">>] = 2
    /\ Holds(propCache[<<"a", "expiringCache">>], last.key)
    /\ EntryOf(propCache[<<"a", "expiringCache">>], last.key).start = 4
    /\ EntryOf(propCache[<<"a", "expiringCache">>], last.key).value = Num(2)

\* The string (a, b) => `${a};${b}` makes of an argument list.
PairKey(args) == ToText(ArgAt(args, 1)) \o ";" \o ToText(ArgAt(args, 2))

\* The step is a call that follows a call of the same member on the same
\* instance that returned.
CallAfterReturn ==
    /\ last.op = "call" /\ last.outcome = "return" /\ last'.op = "call"
    /\ last'.inst = last.inst /\ last'.mem = last.mem

\* C11: with a custom hash function the key of a call is the string the
\* function returns for its arguments, whatever the default hashing would
\* make of them; a call whose arguments the function maps to the string of
\* the call before it is answered from the cache with that call's result,
\* also when the two argument lists differ, and a call mapped to another
\* string is not answered with it.
C11_CustomHashPrecedence ==
    [][(CallStep /\ last'.hashed) =>
        /\ last'.key = PairKey(last'.args)
        /\ last'.computed =>
              ~Holds(propCache[CalledId], PairKey(last'.args))
        /\ (last'.computed /\ last'.outcome = "return") =>
              StoredIn(propCache'[CalledId], PairKey(last'.args))
                 = ToStored(last'.ret)
        /\ (CallAfterReturn /\ PairKey(last'.args) = PairKey(last.args)) =>
              /\ ~last'.computed
              /\ last'.ret = last.ret
              /\ spy' = spy
    ]_vars

\* multiply(3, 5) was computed once and multiply("3", "5"), which the
\* default hashing tells apart from it, was answered with its result.
C11_Witness ==
    /\ last.op = "call" /\ last.mem = "multiply" /\ ~last.computed
    /\ last.args = <<Str("3"), Str("5")>>
    /\ last.ret = Num(1)
    /\ spy[<<"a", "multiply">>] = 1
    /\ KeysOf(propCache[<<"a", "multiply">>]) = <<"3;5">>
    /\ hashArgs(EmptyHeap, <<Str("3"), Str("5")>>)
          # hashArgs(EmptyHeap, <<Num(3), Num(5)>>)

\* The arguments of the call before the step and of the call the step makes.
LastInput == Input(last.heap, last.args)
ThisInput == Input(last'.heap, last'.args)

\* y is x with the properties of some of its objects, at any depth, inserted
\* in another order: the same names with the same values.
Reordered(x, y) ==
    /\ x.args = y.args
    /\ Len(x.heap) = Len(y.heap)
    /\ \A r \in 1..Len(x.heap) :
          /\ x.heap[r].kind = y.heap[r].kind
          /\ IF x.heap[r].kind = "array"
             THEN x.heap[r].items = y.heap[r].items
             ELSE /\ Len(x.heap[r].keys) = Len(y.heap[r].keys)
                  /\ Range(x.heap[r].keys) = Range(y.heap[r].keys)
                  /\ x.heap[r].vals = y.heap[r].vals

\* C12: under the default hashing a call whose arguments are those of the
\* call before it with object properties reordered, at any depth, gets the
\* same key and is answered from the cache with that call's result.
C12_KeyOrderInsensitive ==
    [][(CallAfterReturn /\ Reordered(LastInput, ThisInput)) =>
        /\ last'.key = last.key
        /\ ~last'.computed
        /\ last'.ret = last.ret
        /\ spy' = spy
    ]_vars

\* { c: { b: 2, a: 1 } } was answered from the one entry, computed once,
\* whose key has the properties in sorted order.
C12_Witness ==
    /\ last.op = "call" /\ ~last.computed /\ last.ret = Num(1)
    /\ Input(last.heap, last.args) = NestedBA
    /\ spy[<<"a", "processObject">>] = 1
    /\ KeysOf(propCache[<<"a", "processObject">>])
          = <<"[{\"c\":{\"a\":1,\"b\":2}}]">>
    /\ Reordered(NestedAB, NestedBA) /\ NestedAB # NestedBA

\* The value vx of input x and the value vy of input y are equal in content
\* and shape, whatever references they are built from: the same primitive,
\* arrays of equal elements in the same order, or objects with the same
\* property names and equal values.  References are followed depth levels.
RECURSIVE DeepEqual(_, _, _, _, _)
DeepEqual(x, vx, y, vy, depth) ==
    IF depth = 0 THEN TRUE
    ELSE IF vx.t # vy.t THEN FALSE
    ELSE IF vx.t # "object" THEN vx = vy
    ELSE LET ox == x.heap[vx.ref]
             oy == y.heap[vy.ref]
         IN /\ ox.kind = oy.kind
            /\ IF ox.kind = "array"
               THEN /\ Len(ox.items) = Len(oy.items)
                    /\ \A n \in 1..Len(ox.items) :
                          DeepEqual(x, ox.items[n], y, oy.items[n], depth - 1)
               ELSE /\ Range(ox.keys) = Range(oy.keys)
                    /\ \A k \in Range(ox.keys) :
                          DeepEqual(x, ox.vals[k], y, oy.vals[k], depth - 1)

\* Two argument lists with equal values in every position.  Two graphs of n
\* and m objects that agree to depth n * m agree at every depth.
SameArguments(x, y) ==
    /\ Len(x.args) = Len(y.args)
    /\ \A n \in 1..Len(x.args) :
          DeepEqual(x, x.args[n], y, y.args[n],
                    Len(x.heap) * Len(y.heap) + 1)

\* C13 as stated: under the default hashing a call whose arguments differ in
\* some value from those of the call before it gets another key, so it is
\* not answered with that call's result.
C13_EveryArgumentCounts ==
    [][(CallAfterReturn /\ ~SameArguments(LastInput, ThisInput)) =>
        /\ last'.key # last.key
        /\ last'.ret # last.ret
    ]_vars

\* The objects of input x that can be reached from reference r in n steps.
RECURSIVE ReachableFrom(_, _, _)
ReachableFrom(x, r, n) ==
    LET o == x.heap[r]
        children == IF o.kind = "array" THEN Range(o.items)
                    ELSE {o.vals[k] : k \in Range(o.keys)}
        next == {v.ref : v \in {c \in children : c.t = "object"}}
    IN IF n = 0 THEN {}
       ELSE next \cup UNION {ReachableFrom(x, q, n - 1) : q \in next}

\* Input x contains a structure that refers to itself, directly or through
\* other objects and arrays.
SelfReferential(x) ==
    \E r \in 1..Len(x.heap) : r \in ReachableFrom(x, r, Len(x.heap))

\* C14: the default hashing of arguments that contain a self-referential
\* structure ends with a key, in which the reference back is written as the
\* marker; a second call with the same structure gets the same key and is
\* answered from the cache.
C14_CycleSafety ==
    [][(CallStep /\ SelfReferential(ThisInput)) =>
        /\ last'.hashed
        /\ ThisInput = CircularSelf =>
              last'.key = "[{\"a\":1,\"self\":\"[Circular]\"}]"
        /\ ThisInput = CircularThroughArray =>
              last'.key = "[{\"c\":[\"[Circular]\"]}]"
        /\ (CallAfterReturn /\ LastInput = ThisInput) =>
              /\ last'.key = last.key
              /\ ~last'.computed
              /\ last'.ret = last.ret
    ]_vars

\* processCircular(circular) was computed once and the last call, with the
\* same object, was answered from the cache.
C14_Witness ==
    /\ last.op = "call" /\ ~last.computed /\ last.ret = Num(1)
    /\ Input(last.heap, last.args) = CircularSelf
    /\ SelfReferential(CircularSelf)
    /\ spy[<<"a", "processObject">>] = 1
    /\ KeysOf(propCache[<<"a", "processObject">>])
          = <<"[{\"a\":1,\"self\":\"[Circular]\"}]">>

\* C15 as stated: under the default hashing a call whose arguments are equal
\* in content and shape to those of the call before it, whatever objects
\* they are built from, gets the same key and is answered from the cache.
C15_ValueEquality ==
    [][(CallAfterReturn /\ SameArguments(LastInput, ThisInput)) =>
        /\ last'.key = last.key
        /\ ~last'.computed
        /\ last'.ret = last.ret
    ]_vars

\* The references among the values of a sequence, counted with repetition.
RefSlots(values) ==
    Cardinality({n \in 1..Len(values) : values[n].t = "object"})

\* The objects of input x the traversal visits, and the references it
\* examines on the way: those of the argument list and of every object
\* visited.
Visited(x) ==
    LET direct == {x.args[n].ref :
                      n \in {m \in 1..Len(x.args) : x.args[m].t = "object"}}
    IN direct \cup UNION {ReachableFrom(x, r, Len(x.heap)) : r \in direct}

RECURSIVE Examined(_, _)
Examined(x, r) ==
    IF r > Len(x.heap) THEN RefSlots(x.args)
    ELSE Examined(x, r + 1) +
         (IF r \notin Visited(x) THEN 0
          ELSE IF x.heap[r].kind = "array" THEN RefSlots(x.heap[r].items)
          ELSE Cardinality({k \in Range(x.heap[r].keys) :
                               x.heap[r].vals[k].t = "object"}))

\* The encoding of input x meets some reference again: every object is
\* visited once, so more references are examined than objects visited.
MeetsAgain(x) == Examined(x, 1) > Cardinality(Visited(x))

\* C17 as stated: a key in which the marker was written for a reference met
\* again is the key of no argument list without a repeated reference.
C17_MarkerDistinct ==
    [][(CallAfterReturn /\ MeetsAgain(LastInput) /\ ~MeetsAgain(ThisInput)) =>
        last'.key # last.key
    ]_vars

\* Every cache holds at most the maxSize of its member.
WithinMaxSize(caches) ==
    \A id \in DOMAIN caches : Len(EntriesOf(caches[id])) <= MaxSizeOn(id[2])

\* C16: whatever calls and clears are made, no cache holds more entries than
\* the maxSize of its member; a call adds at most one entry, and it removes
\* an entry only to make room for a new key in a full cache, and then
\* exactly one, the least recently used.
C16_SizeBound ==
    [][/\ WithinMaxSize(propCache) /\ WithinMaxSize(propCache')
       /\ CallStep =>
            LET keys == KeysOf(propCache[CalledId])
                after == KeysOf(propCache'[CalledId])
                dropped == Range(keys) \ Range(after)
                inserting == /\ last'.computed /\ last'.outcome = "return"
                             /\ last'.key \notin Range(keys)
                full == Len(keys) = MaxSizeOn(last'.mem)
            IN /\ Range(after) \subseteq Range(keys) \cup {last'.key}
               /\ Len(after) <= Len(keys) + 1
               /\ dropped = IF inserting /\ full THEN {Head(keys)} ELSE {}
    ]_vars

\* maxSize = 2: the original method ran three times, the last time for a,
\* and the cache holds the two keys computed last.
C16_Witness ==
    /\ last.op = "call" /\ last.mem = "limitedCache" /\ last.computed
    /\ last.key = KeyOf(<<Str("a")>>)
    /\ clearCacheTagsMap["sized"] = <<<<"a", "limitedCache">>,
            <<"a", "limitedCache">>, <<"a", "limitedCache">>>>
    /\ spy[<<"a", "limitedCache">>] = 3
    /\ KeysOf(propCache[<<"a", "limitedCache">>])
          = <<KeyOf(<<Str("c")>>), KeyOf(<<Str("a")>>)>>

\* C18 as stated: the collection of every tag holds each cache at most once.
C18_RegisteredOnce ==
    \A tag \in DOMAIN clearCacheTagsMap :
        Len(clearCacheTagsMap[tag]) = Cardinality(Range(clearCacheTagsMap[tag]))

\* s is the beginning of t.
IsPrefix(s, t) == Len(s) <= Len(t) /\ SubSeq(t, 1, Len(s)) = s

\* C19: clear(T) leaves the registry as it is and removes entries only; no
\* step takes a tag or a cache out of the registry, so a cache that was
\* cleared stays registered and whatever it holds at the next clear of the
\* tag is removed again; clear(T) right after clear(T) returns the same
\* count.
C19_ClearKeepsRegistry ==
    [][/\ \A tag \in DOMAIN clearCacheTagsMap :
            /\ tag \in DOMAIN clearCacheTagsMap'
            /\ IsPrefix(clearCacheTagsMap[tag], clearCacheTagsMap'[tag])
       /\ last'.op = "clear" =>
            /\ clearCacheTagsMap' = clearCacheTagsMap
            /\ descriptor' = descriptor /\ spy' = spy /\ now' = now
            /\ last'.ret = Cardinality(RegisteredUnder(clearCacheTagsMap,
                                                       last'.tags))
            /\ \A id \in DOMAIN propCache :
                  /\ \/ propCache'[id] = propCache[id]
                     \/ /\ propCache[id] # NoCache
                        /\ propCache'[id] = [propCache[id] EXCEPT !.entries = <<>>]
                  /\ id \in RegisteredUnder(clearCacheTagsMap', last'.tags) =>
                        EntriesOf(propCache'[id]) = <<>>
       /\ (last.op = "clear" /\ last'.op = "clear" /\ last'.tags = last.tags) =>
            last'.ret = last.ret
    ]_vars

\* clear(["foo"]) has emptied, for the second time, the cache of the member
\* tagged foo: the entry stored after the first clear is gone, and the cache
\* is still registered under both its tags.
C19_Witness ==
    /\ last.op = "clear" /\ last.tags = <<"foo">> /\ last.ret = 1
    /\ spy[<<"a", "getGreeting4">>] = 2
    /\ EntriesOf(propCache[<<"a", "getGreeting4">>]) = <<>>
    /\ propCache[<<"a", "getGreeting4">>] # NoCache
    /\ "foo" \in DOMAIN clearCacheTagsMap /\ "bar" \in DOMAIN clearCacheTagsMap
    /\ <<"a", "getGreeting4">> \in Range(clearCacheTagsMap["foo"])
    /\ <<"a", "getGreeting4">> \in Range(clearCacheTagsMap["bar"])

\* The custom hash function of member m throws for the arguments: it is the
\* template literal and one of the two values it formats is a symbol.
HashThrows(m, args) ==
    /\ "hashFunction" \in DOMAIN descriptor[m].args
    /\ descriptor[m].args.hashFunction = PairHash
    /\ \E n \in {1, 2} : ArgAt(args, n).t = "symbol"

\* C20: a call for whose arguments the custom hash function throws ends with
\* that exception; the original method is not invoked and the entries of the
\* instance's cache are what they were.
C20_HashFunctionError ==
    [][CallStep =>
        LET throws == HashThrows(last'.mem, last'.args)
        IN /\ throws =>
                 /\ last'.outcome = "throw"
                 /\ last'.ret = SymbolError
                 /\ ~last'.computed
                 /\ spy' = spy
                 /\ EntriesOf(propCache'[CalledId]) = EntriesOf(propCache[CalledId])
           /\ ~last'.hashed => throws
    ]_vars

\* multiply(3, 5) is cached; multiply(Symbol(), 5) threw the TypeError of the
\* hash function and left the one entry and the count of invocations alone.
C20_Witness ==
    /\ last.op = "call" /\ last.mem = "multiply" /\ last.outcome = "throw"
    /\ ~last.hashed /\ ~last.computed
    /\ last.args = <<Sym("s"), Num(5)>>
    /\ last.ret = SymbolError
    /\ spy[<<"a", "multiply">>] = 1
    /\ EntriesOf(propCache[<<"a", "multiply">>])
          = << [key |-> "3;5", value |-> Num(1), start |-> 0] >>

\* C21: on a member whose ttl is zero or negative no entry goes with the
\* passage of time: a step of the clock or of a timer changes no cache, a
\* key leaves a cache only in a clear or in the call that stores a new key
\* into the full cache, and a call whose key has an entry is answered with
\* it whatever the time is.
C21_NoExpiryWithoutTtl ==
    [][/\ last'.op \in {"tick", "timer", "autopurge"} => propCache' = propCache
       /\ \A id \in DOMAIN propCache :
            TtlOn(id[2]) <= 0 =>
               \A k \in Range(KeysOf(propCache[id])) :
                  k \notin Range(KeysOf(propCache'[id])) =>
                     \/ last'.op = "clear"
                     \/ /\ CallStep /\ CalledId = id /\ last'.computed
                        /\ last'.key # k
                        /\ Len(KeysOf(propCache[id])) = MaxSizeOn(id[2])
       /\ (CallStep /\ TtlOn(last'.mem) <= 0
              /\ Holds(propCache[CalledId], last'.key)) =>
            /\ ~last'.computed
            /\ last'.ret = FromStored(StoredIn(propCache[CalledId], last'.key))
    ]_vars

\* ttl = -1: at the last clock value of the model the call was answered with
\* the one result that was ever computed.
C21_Witness ==
    /\ last.op = "call" /\ last.mem = "negativeTtl" /\ ~last.computed
    /\ last.ret = Num(1)
    /\ now >= 5
    /\ spy[<<"a", "negativeTtl">>] = 1
    /\ TtlOn("negativeTtl") < 0
    /\ Holds(propCache[<<"a", "negativeTtl">>], last.key)

\* C22: the cache of an (instance, member) pair comes into being in a call of
\* that member on that instance and is the same cache from then on; a call
\* changes the cache of no other pair, and it is answered from the cache of
\* its own pair only: the first call of a member computes, also when another
\* member of the instance holds an entry under the same key.
C22_OneCachePerMember ==
    [][/\ \A id \in DOMAIN propCache :
            /\ (propCache[id] = NoCache /\ propCache'[id] # NoCache) =>
                  (CallStep /\ CalledId = id)
            /\ propCache[id] # NoCache =>
                  /\ propCache'[id] # NoCache
                  /\ propCache'[id].max = propCache[id].max
                  /\ propCache'[id].ttl = propCache[id].ttl
            /\ (CallStep /\ CalledId # id) => propCache'[id] = propCache[id]
       /\ CallStep =>
            /\ propCache'[CalledId] # NoCache
            /\ propCache[CalledId] = NoCache => last'.computed
            /\ ~last'.computed =>
                  /\ Holds(propCache[CalledId], last'.key)
                  /\ last'.ret = FromStored(StoredIn(propCache[CalledId], last'.key))
    ]_vars

\* Two members without arguments on one instance: each cache has its own
\* entry under the key [], one the sentinel and the other a number.
C22_Witness ==
    /\ last.op = "call" /\ last.mem = "getSum" /\ last.computed
    /\ last.key = "[]"
    /\ EntriesOf(propCache[<<"a", "getGreeting4">>])
          = << [key |-> "[]", value |-> UNDEFINED_SENTINEL, start |-> 0] >>
    /\ EntriesOf(propCache[<<"a", "getSum">>])
          = << [key |-> "[]", value |-> Num(1), start |-> 0] >>
    /\ spy[<<"a", "getGreeting4">>] = 1 /\ spy[<<"a", "getSum">>] = 1

\* C23 as stated: every myCache.set a call makes is for a key without a live
\* entry at that moment, and the value an entry holds is not changed by a
\* call, re-entrant or not.
C23_NoOverwrite ==
    [][CallStep =>
        /\ \A n \in 1..Len(last'.sets) : ~last'.sets[n].live
        /\ \A k \in Range(KeysOf(propCache[CalledId])) :
              Holds(propCache'[CalledId], k) =>
                 StoredIn(propCache'[CalledId], k) = StoredIn(propCache[CalledId], k)
    ]_vars

\* C24 as stated: a call of a member whose maxSize is 0 or negative runs the
\* underlying computation every time and ends as the computation ends: it
\* throws only what the computation throws.
C24_NonPositiveMaxSize ==
    [][CallStep /\ MaxSizeOn(last'.mem) <= 0 =>
        /\ last'.computed
        /\ spy'[CalledId] = spy[CalledId] + 1
    ]_vars

\* C25: in every reachable state no cache entry holds undefined (each holds
\* a defined result or the sentinel), and a memoized call that returned has
\* returned undefined or a value the original method returned to this member
\* of this instance, never the sentinel.
C25_SentinelContained ==
    /\ \A id \in DOMAIN propCache :
          \A n \in 1..Len(Entries(id)) :
             /\ Entries(id)[n].value # Undefined
             /\ \/ Entries(id)[n].value = UNDEFINED_SENTINEL
                \/ \E r \in 1..spy[id] : Entries(id)[n].value = Num(r)
    /\ (last.op = "call" /\ last.outcome = "return") =>
          /\ last.ret # UNDEFINED_SENTINEL
          /\ \/ last.ret = Undefined
             \/ \E r \in 1..spy[<<last.inst, last.mem>>] : last.ret = Num(r)

\* A call was answered with undefined from an entry that holds the sentinel.
C25_Witness ==
    /\ last.op = "call" /\ last.outcome = "return" /\ ~last.computed
    /\ last.ret = Undefined
    /\ Holds(propCache[<<last.inst, last.mem>>], last.key)
    /\ StoredIn(propCache[<<last.inst, last.mem>>], last.key) = UNDEFINED_SENTINEL

\* C26: on a cache with a ttl, a call whose myCache.has succeeded returns
\* what the entry of its key held when the call began, whatever time passes
\* before myCache.get: the stored value, or undefined for the sentinel and
\* for nothing else; the entry is still there after the call.
C26_HasThenGet ==
    [][(CallStep /\ TtlOn(last'.mem) > 0
          /\ ~last'.computed /\ last'.outcome = "return") =>
        /\ Holds(propCache[CalledId], last'.key)
        /\ last'.ret = FromStored(StoredIn(propCache[CalledId], last'.key))
        /\ (last'.ret = Undefined =>
              StoredIn(propCache[CalledId], last'.key) = UNDEFINED_SENTINEL)
        /\ Holds(propCache'[CalledId], last'.key)
    ]_vars

\* A call was answered from the cache with a defined value, and while it ran
\* the age of the entry went past the ttl.
C26_Witness ==
    /\ last.op = "call" /\ ~last.computed /\ last.outcome = "return"
    /\ last.took > 0
    /\ last.ret # Undefined
    /\ Holds(propCache[<<last.inst, last.mem>>], last.key)
    /\ LET c == propCache[<<last.inst, last.mem>>]
           e == c.entries[IndexOf(c.entries, last.key)]
       IN /\ now - e.start > c.ttl
          /\ (now - last.took) - e.start <= c.ttl

====
